---- MODULE Spec2Model ----
(***************************************************************************)
(* Flag submission and scoring of the CTF platform.                        *)
(*                                                                         *)
(* The submit handler (server routes, persisted rate-limit variant) runs   *)
(* against the IStorage interface.  Two implementations of that interface  *)
(* exist: DatabaseStorage (SQL tables, every statement is a real           *)
(* suspension point) and MemStorage (in-process maps; every await resolves *)
(* in the same macrotask, so a request runs to completion).                *)
(*                                                                         *)
(* Two route files register POST /api/challenges/:id/submit: one keeps the *)
(* rate limits in the rate_limits table through the storage ("persisted"), *)
(* the other keeps them in a map of the server process ("map").            *)
(*                                                                         *)
(* Time is counted in whole seconds.                                       *)
(***************************************************************************)
EXTENDS Integers, Sequences, FiniteSets, TLC

VARIABLES store, routes, now, pc, loc, users, challenges, solves,
          flagSubmissions, rateLimits, rateLimitMap, achievements, hintUsage,
          reqCount

vars == <<store, routes, now, pc, loc, users, challenges, solves,
          flagSubmissions, rateLimits, rateLimitMap, achievements, hintUsage,
          reqCount>>

dbvars == <<users, challenges, solves, flagSubmissions, rateLimits,
            achievements, hintUsage>>

----------------------------------------------------------------------------
(* Bounds of the model *)

NUsers == 2
NChallenges == 2
NProcs == 2
NRateUsers == 1
MaxReqs == 2
MaxSecTicks == 1
RateMaxReqs == 4
RateMaxSecTicks == 6
StreakMaxReqs == 3
StreakMaxHalfDays == 4
InputMaxReqs == 2
InputMaxSecTicks == 1
RaceMaxReqs == 3
AdminMaxReqs == 2
FaultMaxReqs == 2
AnalyticsMaxReqs == 6
AnalyticsMaxSecTicks == 3
EquivMaxReqs == 4
EquivMaxSecTicks == 8
BloodMaxReqs == 2
PersistMaxReqs == 2

(* Program constants, times in seconds *)

DayLen == 86400
Delay1 == 5
Delay2 == 10
Delay3 == 15
FirstBloodBonus == 50
MapDelayBase == 5
MapDelayStep == 5
MapDelayMax == 15
AttemptsShown == 5
RatingDefault == 5
RatingMax == 10

(* Granularity of the clock: the shortest delay, and half a day *)

SecTick == Delay1
HalfDay == DayLen \div 2

NULL == -1

Users == 1..NUsers
Challenges == 1..NChallenges
Procs == 1..NProcs
RateUsers == 1..NRateUsers
NoSuchChallenge == NChallenges + 1
ReqChallengeIds == Challenges \cup {NoSuchChallenge}
Pairs == Users \X ReqChallengeIds

----------------------------------------------------------------------------
(* Text: a string is a sequence of one-character strings *)

(* String.prototype.trim strips blanks, tabs and line ends, among others *)
IsSpace(ch) == ch \in {" ", "\t", "\n"}

RECURSIVE TrimStart(_)
TrimStart(s) ==
  IF s = <<>> THEN s
  ELSE IF IsSpace(Head(s)) THEN TrimStart(Tail(s)) ELSE s

RECURSIVE TrimEnd(_)
TrimEnd(s) ==
  IF s = <<>> THEN s
  ELSE IF IsSpace(s[Len(s)]) THEN TrimEnd(SubSeq(s, 1, Len(s) - 1)) ELSE s

Trim(s) == TrimEnd(TrimStart(s))

FlagOf(c) == <<"f">> \o [i \in 1..c |-> "a"]

(* the texts submitted: each is the flag of one challenge, the first one   *)
(* padded with blanks, so each is right for one challenge and wrong for    *)
(* the others                                                              *)
FlagTexts ==
  { <<" ">> \o FlagOf(1) \o <<" ">> } \cup { FlagOf(c) : c \in Challenges \ {1} }

Bodies ==
  { [isString |-> TRUE, text |-> f] : f \in FlagTexts }
    \cup { [isString |-> FALSE, text |-> <<>>] }

(* Flags an admin may have stored for challenge 1 and the texts submitted  *)
(* against them: exact, padded, other case, other inner blanks, a prefix,  *)
(* empty and blank                                                         *)
StoredFlags ==
  { <<"F", "a">>, <<" ", "F", "a", "\t">>, <<"F", " ", "a">> }

InputTexts ==
  { <<"F", "a">>, <<"\n", "F", "a", " ">>, <<"f", "a">>, <<"F", " ", "a">>,
    <<"F", " ", " ", "a">>, <<"F">>, <<>>, <<" ">> }

InputBodies ==
  { [isString |-> TRUE, text |-> f] : f \in InputTexts }
    \cup { [isString |-> FALSE, text |-> <<>>] }

HintsOf(c) == IF c = 1 THEN <<10>> ELSE <<>>
HintIndexes == 0..1

----------------------------------------------------------------------------
(* Rows and helpers *)

RowsOf(table, u, c) ==
  { i \in DOMAIN table : table[i].userId = u /\ table[i].challengeId = c }

ChallengeRows(table, c) == { i \in DOMAIN table : table[i].challengeId = c }

UserRows(table, u) == { i \in DOMAIN table : table[i].userId = u }

LocInit ==
  [ op |-> "none", userId |-> 0, challengeId |-> 0, flag |-> <<>>,
    isCorrect |-> FALSE, points |-> 0, isFirstBlood |-> FALSE,
    pointsAwarded |-> 0, newScore |-> 0, newStreak |-> 0, now |-> NULL,
    attempts |-> 0, delay |-> 0, nextAllowedAt |-> NULL, existing |-> FALSE,
    toAward |-> {}, hintIndex |-> 0, hintCost |-> 0, firstBloodSeen |-> FALSE,
    remaining |-> 0, solvedOnArrival |-> FALSE, solvers |-> 0,
    rating |-> NULL, result |-> "none" ]

Quiescent == \A p \in Procs : pc[p] \in {"idle", "done"}

(* what is left of a request once it has responded: its inputs, whether a  *)
(* Solve of its pair existed when it arrived, and the response             *)
Response(l, r) ==
  [LocInit EXCEPT !.op = l.op, !.userId = l.userId,
     !.challengeId = l.challengeId, !.flag = l.flag, !.result = r,
     !.solvedOnArrival = l.solvedOnArrival,
     !.points = IF r = "correct" THEN l.points ELSE 0,
     !.isFirstBlood = IF r = "correct" THEN l.isFirstBlood ELSE FALSE,
     !.now = IF r = "wrong" THEN l.now ELSE NULL,
     !.delay = IF r = "wrong" THEN l.delay ELSE 0,
     !.firstBloodSeen = IF r = "correct" THEN l.firstBloodSeen ELSE FALSE,
     !.remaining = IF r = "wrong" THEN l.remaining ELSE 0]

Finish(p, r) ==
  /\ pc' = [pc EXCEPT ![p] = "done"]
  /\ loc' = [loc EXCEPT ![p] = Response(loc[p], r)]

InFlight(kind) == Cardinality({ p \in Procs : pc[p] \notin {"idle", "done"} /\ loc[p].op = kind })

RECURSIVE SumOver(_, _)
SumOver(f, S) ==
  IF S = {} THEN 0
  ELSE LET x == CHOOSE y \in S : TRUE IN f[x] + SumOver(f, S \ {x})

Requests == SumOver(reqCount, Pairs) + Len(hintUsage) + InFlight("hintNew")

Goto(p, label) == pc' = [pc EXCEPT ![p] = label]

----------------------------------------------------------------------------
(* Storage reads shared by both implementations *)

HasSolveNever(u, c) == FALSE

(* getSolve: is there a Solve row for the pair *)
HasSolve(u, c) == RowsOf(solves, u, c) # {}

(* checkFirstBlood: no Solve row of the challenge exists *)
checkFirstBlood(c) == Cardinality(ChallengeRows(solves, c)) = 0

canSubmitFlagStrictlyAfter(hasRow, nextAllowedAt, t) ==
  IF ~hasRow \/ nextAllowedAt = NULL THEN TRUE ELSE t > nextAllowedAt

(* canSubmitFlag on the row that getRateLimit returned, if any *)
canSubmitFlag(hasRow, nextAllowedAt, t) ==
  IF ~hasRow \/ nextAllowedAt = NULL THEN TRUE ELSE t >= nextAllowedAt

isCorrectFlagStoredUntrimmed(submitted, stored) == Trim(submitted) = stored

(* submittedFlag.trim() === challenge.flag.trim() *)
isCorrectFlag(submitted, stored) == Trim(submitted) = Trim(stored)

delayForUncapped(attempts) == Delay1 * attempts

(* delay of the wrong-flag branch: 5, then 10 from the 2nd, 15 from the 3rd *)
delayFor(attempts) ==
  IF attempts >= 3 THEN Delay3 ELSE IF attempts >= 2 THEN Delay2 ELSE Delay1

(* updateUserScoreAndStreak: newScore = user.score + points *)
newScoreFor(score, points) == score + points

(* updateUserScoreAndStreak: the streak computed from the row that was read *)
newStreakFor(streak, lastSolveAt, t) ==
  IF lastSolveAt # NULL
  THEN LET daysDiff == (t - lastSolveAt) \div DayLen
       IN IF daysDiff = 1 THEN streak + 1
          ELSE IF daysDiff > 1 THEN 1 ELSE streak
  ELSE 1

(* checkAndAwardAchievements: the achievement types pushed *)
achievementsToAward(isFirstBlood, nSolves) ==
  (IF isFirstBlood THEN {"first_blood"} ELSE {})
    \cup (IF nSolves = 1 THEN {"first_solve"}
          ELSE IF nSolves = 10 THEN {"solver"}
          ELSE IF nSolves = 50 THEN {"expert"} ELSE {})

----------------------------------------------------------------------------
(* Initial state: registered users, created challenges, empty tables *)

InitUser(s) ==
  IF s = "db" THEN [score |-> 0, solveStreak |-> 0, lastSolveAt |-> NULL]
  ELSE [score |-> 0, solveStreak |-> NULL, lastSolveAt |-> NULL]

InitChallenge(c) ==
  [points |-> 100 * c, flag |-> FlagOf(c), isActive |-> TRUE,
   totalSolves |-> 0, hints |-> HintsOf(c)]

(* no entry of rateLimitMap *)
NoLimit == [present |-> FALSE, attempts |-> 0, nextAllowedAt |-> NULL]

Init ==
  /\ store \in {"db", "mem"}
  /\ routes = "persisted"
  /\ now = 0
  /\ pc = [p \in Procs |-> "idle"]
  /\ loc = [p \in Procs |-> LocInit]
  /\ users = [u \in Users |-> InitUser(store)]
  /\ challenges = [c \in Challenges |-> InitChallenge(c)]
  /\ solves = <<>>
  /\ flagSubmissions = <<>>
  /\ rateLimits = <<>>
  /\ rateLimitMap = [pr \in Pairs |-> NoLimit]
  /\ achievements = [u \in Users |-> [t \in {"first_blood", "first_solve", "solver", "expert"} |-> 0]]
  /\ hintUsage = <<>>
  /\ reqCount = [pr \in Pairs |-> 0]

----------------------------------------------------------------------------
(* Clock *)

TickSec(maxTicks) ==
  /\ (now % HalfDay) \div SecTick < maxTicks
  /\ now' = now + SecTick
  /\ UNCHANGED <<store, routes, rateLimitMap, pc, loc, dbvars, reqCount>>

TickHalfDay(maxHalfDays) ==
  /\ now \div HalfDay < maxHalfDays
  /\ now' = now + HalfDay
  /\ UNCHANGED <<store, routes, rateLimitMap, pc, loc, dbvars, reqCount>>

----------------------------------------------------------------------------
(* POST /api/challenges/:id/submit, persisted rate-limit variant *)

(* A request arrives; the body is parsed before the first await.  With     *)
(* MemStorage no await ever suspends, so a request starts only when no     *)
(* other request is in progress.                                           *)
Submit(p, u, c, body, maxReqs) ==
  /\ routes = "persisted"
  /\ pc[p] \in {"idle", "done"}
  /\ Requests < maxReqs
  /\ store = "mem" => Quiescent
  /\ IF body.isString
     THEN /\ pc' = [pc EXCEPT ![p] = "canSubmit"]
          /\ loc' = [loc EXCEPT ![p] = [LocInit EXCEPT !.op = "submit",
                        !.userId = u, !.challengeId = c, !.flag = body.text,
                        !.solvedOnArrival = HasSolve(u, c)]]
          /\ reqCount' = [reqCount EXCEPT ![<<u, c>>] = @ + 1]
     ELSE /\ pc' = [pc EXCEPT ![p] = "done"]
          /\ loc' = [loc EXCEPT ![p] = Response([LocInit EXCEPT !.op = "submit",
                        !.userId = u, !.challengeId = c], "error")]
          /\ UNCHANGED reqCount
  /\ UNCHANGED <<store, routes, rateLimitMap, now, dbvars>>

(* storage.canSubmitFlag; 429 when not allowed *)
CanSubmit(p) ==
  /\ pc[p] = "canSubmit"
  /\ LET u == loc[p].userId
         c == loc[p].challengeId
         rows == RowsOf(rateLimits, u, c)
     IN IF rows = {}
        THEN IF canSubmitFlag(FALSE, NULL, now)
             THEN Goto(p, "getSolve") /\ UNCHANGED loc
             ELSE Finish(p, "rate_limited")
        ELSE \E i \in rows :
               IF canSubmitFlag(TRUE, rateLimits[i].nextAllowedAt, now)
               THEN Goto(p, "getSolve") /\ UNCHANGED loc
               ELSE Finish(p, "rate_limited")
  /\ UNCHANGED <<store, routes, rateLimitMap, now, dbvars, reqCount>>

GetSolveSkipped(p) ==
  /\ pc[p] = "getSolve"
  /\ Goto(p, "getChallenge") /\ UNCHANGED loc
  /\ UNCHANGED <<store, routes, rateLimitMap, now, dbvars, reqCount>>

(* storage.getSolve; 400 when a Solve exists *)
GetSolve(p) ==
  /\ pc[p] = "getSolve"
  /\ IF HasSolve(loc[p].userId, loc[p].challengeId)
     THEN Finish(p, "already_solved")
     ELSE Goto(p, "getChallenge") /\ UNCHANGED loc
  /\ UNCHANGED <<store, routes, rateLimitMap, now, dbvars, reqCount>>

(* storage.getChallenge; 404 when missing; then the flag comparison *)
GetChallenge(p) ==
  /\ pc[p] = "getChallenge"
  /\ LET c == loc[p].challengeId
     IN IF c \notin DOMAIN challenges
        THEN Finish(p, "not_found")
        ELSE /\ Goto(p, "createSubmission")
             /\ loc' = [loc EXCEPT
                   ![p].isCorrect = isCorrectFlag(loc[p].flag, challenges[c].flag),
                   ![p].points = challenges[c].points]
  /\ UNCHANGED <<store, routes, rateLimitMap, now, dbvars, reqCount>>

(* storage.createFlagSubmission: DatabaseStorage stores the isCorrect it   *)
(* is given, MemStorage always stores false                                *)
SubmissionRow(p) ==
  [userId |-> loc[p].userId, challengeId |-> loc[p].challengeId,
   submittedFlag |-> loc[p].flag,
   isCorrect |-> IF store = "db" THEN loc[p].isCorrect ELSE FALSE]

CreateFlagSubmission(p) ==
  /\ pc[p] = "createSubmission"
  /\ flagSubmissions' = Append(flagSubmissions, SubmissionRow(p))
  /\ Goto(p, IF loc[p].isCorrect
             THEN (IF store = "db" THEN "checkFirstBlood" ELSE "memCreateSolve")
             ELSE "getRateLimit")
  /\ UNCHANGED <<store, routes, rateLimitMap, now, loc, users, challenges, solves, rateLimits,
                 achievements, hintUsage, reqCount>>

----------------------------------------------------------------------------
(* DatabaseStorage.createSolve: one step per awaited statement *)

DbCheckFirstBlood(p) ==
  /\ pc[p] = "checkFirstBlood"
  /\ loc' = [loc EXCEPT ![p].isFirstBlood = checkFirstBlood(loc[p].challengeId)]
  /\ Goto(p, "solveGetChallenge")
  /\ UNCHANGED <<store, routes, rateLimitMap, now, dbvars, reqCount>>

DbSolveGetChallenge(p) ==
  /\ pc[p] = "solveGetChallenge"
  /\ LET c == loc[p].challengeId
     IN loc' = [loc EXCEPT ![p].pointsAwarded =
                  IF c \in DOMAIN challenges THEN challenges[c].points ELSE 0]
  /\ Goto(p, "insertSolve")
  /\ UNCHANGED <<store, routes, rateLimitMap, now, dbvars, reqCount>>

DbSolveRow(p) ==
  [userId |-> loc[p].userId, challengeId |-> loc[p].challengeId,
   solvedAt |-> now, isFirstBlood |-> loc[p].isFirstBlood,
   pointsAwarded |-> loc[p].pointsAwarded]

DbInsertSolve(p) ==
  /\ pc[p] = "insertSolve"
  /\ solves' = Append(solves, DbSolveRow(p))
  /\ Goto(p, "getUser")
  /\ UNCHANGED <<store, routes, rateLimitMap, now, loc, users, challenges, flagSubmissions,
                 rateLimits, achievements, hintUsage, reqCount>>

(* updateUserScoreAndStreak: getUser, then newScore, now and newStreak are  *)
(* computed from the row that was read                                      *)
DbGetUser(p) ==
  /\ pc[p] = "getUser"
  /\ LET user == users[loc[p].userId]
     IN loc' = [loc EXCEPT
           ![p].newScore = newScoreFor(user.score, loc[p].pointsAwarded),
           ![p].now = now,
           ![p].newStreak = newStreakFor(user.solveStreak, user.lastSolveAt, now)]
  /\ Goto(p, "updateUser")
  /\ UNCHANGED <<store, routes, rateLimitMap, now, dbvars, reqCount>>

DbUpdateUser(p) ==
  /\ pc[p] = "updateUser"
  /\ users' = [users EXCEPT ![loc[p].userId] =
                 [score |-> loc[p].newScore, solveStreak |-> loc[p].newStreak,
                  lastSolveAt |-> loc[p].now]]
  /\ Goto(p, "incTotalSolves")
  /\ UNCHANGED <<store, routes, rateLimitMap, now, loc, challenges, solves, flagSubmissions,
                 rateLimits, achievements, hintUsage, reqCount>>

(* totalSolves = totalSolves + 1 in one SQL statement *)
DbIncTotalSolves(p) ==
  /\ pc[p] = "incTotalSolves"
  /\ LET c == loc[p].challengeId
     IN challenges' = IF c \in DOMAIN challenges
                      THEN [challenges EXCEPT ![c].totalSolves = @ + 1]
                      ELSE challenges
  /\ Goto(p, "getUserSolves")
  /\ UNCHANGED <<store, routes, rateLimitMap, now, loc, users, solves, flagSubmissions,
                 rateLimits, achievements, hintUsage, reqCount>>

(* checkAndAwardAchievements: getUserSolves, then the insert if any *)
DbGetUserSolves(p) ==
  /\ pc[p] = "getUserSolves"
  /\ LET n == Cardinality({ i \in UserRows(solves, loc[p].userId) :
                              solves[i].challengeId \in DOMAIN challenges })
         award == achievementsToAward(loc[p].isFirstBlood, n)
     IN IF award = {}
        THEN Finish(p, "correct")
        ELSE /\ loc' = [loc EXCEPT ![p].toAward = award]
             /\ Goto(p, "insertAchievements")
  /\ UNCHANGED <<store, routes, rateLimitMap, now, dbvars, reqCount>>

DbInsertAchievements(p) ==
  /\ pc[p] = "insertAchievements"
  /\ achievements' = [achievements EXCEPT ![loc[p].userId] =
        [t \in DOMAIN @ |-> IF t \in loc[p].toAward THEN @[t] + 1 ELSE @[t]]]
  /\ Finish(p, "correct")
  /\ UNCHANGED <<store, routes, rateLimitMap, now, users, challenges, solves, flagSubmissions,
                 rateLimits, hintUsage, reqCount>>

(* A statement of checkAndAwardAchievements fails: createSolve rejects and *)
(* the catch of the handler answers 500                                    *)
DbGetUserSolvesThrows(p) ==
  /\ pc[p] = "getUserSolves"
  /\ Finish(p, "error")
  /\ UNCHANGED <<store, routes, rateLimitMap, now, dbvars, reqCount>>

DbInsertAchievementsThrows(p) ==
  /\ pc[p] = "insertAchievements"
  /\ Finish(p, "error")
  /\ UNCHANGED <<store, routes, rateLimitMap, now, dbvars, reqCount>>

FaultStep(p) ==
  \/ DbGetUserSolvesThrows(p)
  \/ DbInsertAchievementsThrows(p)

(* A statement of createSolve fails: the insert of the Solve, or after it  *)
(* the read or the update of updateUserScoreAndStreak, or the update of    *)
(* totalSolves; nothing is rolled back and the handler answers 500         *)
DbInsertSolveThrows(p) ==
  /\ pc[p] = "insertSolve"
  /\ Finish(p, "error")
  /\ UNCHANGED <<store, routes, rateLimitMap, now, dbvars, reqCount>>

DbGetUserThrows(p) ==
  /\ pc[p] = "getUser"
  /\ Finish(p, "error")
  /\ UNCHANGED <<store, routes, rateLimitMap, now, dbvars, reqCount>>

DbUpdateUserThrows(p) ==
  /\ pc[p] = "updateUser"
  /\ Finish(p, "error")
  /\ UNCHANGED <<store, routes, rateLimitMap, now, dbvars, reqCount>>

DbIncTotalSolvesThrows(p) ==
  /\ pc[p] = "incTotalSolves"
  /\ Finish(p, "error")
  /\ UNCHANGED <<store, routes, rateLimitMap, now, dbvars, reqCount>>

PersistFaultStep(p) ==
  \/ DbInsertSolveThrows(p)
  \/ DbGetUserThrows(p)
  \/ DbUpdateUserThrows(p)
  \/ DbIncTotalSolvesThrows(p)

----------------------------------------------------------------------------
(* MemStorage: a map entry is replaced when its key exists *)

MapSet(table, row) ==
  IF RowsOf(table, row.userId, row.challengeId) # {}
  THEN [i \in DOMAIN table |->
          IF table[i].userId = row.userId /\ table[i].challengeId = row.challengeId
          THEN row ELSE table[i]]
  ELSE Append(table, row)

(* points credited by MemStorage.createSolve *)
MemPoints(points, isFirstBlood) ==
  IF isFirstBlood THEN points + FirstBloodBonus ELSE points

MemCreateSolve(p) ==
  /\ pc[p] = "memCreateSolve"
  /\ LET u == loc[p].userId
         c == loc[p].challengeId
         fb == checkFirstBlood(c)
         row == [userId |-> u, challengeId |-> c, solvedAt |-> now,
                 isFirstBlood |-> fb, pointsAwarded |-> NULL]
     IN /\ solves' = MapSet(solves, row)
        /\ users' = IF c \in DOMAIN challenges
                    THEN [users EXCEPT ![u].score =
                            @ + MemPoints(challenges[c].points, fb)]
                    ELSE users
        /\ pc' = [pc EXCEPT ![p] = "done"]
        /\ loc' = [loc EXCEPT ![p] = Response(loc[p], "correct")]
  /\ UNCHANGED <<store, routes, rateLimitMap, now, challenges, flagSubmissions, rateLimits,
                 achievements, hintUsage, reqCount>>

----------------------------------------------------------------------------
(* Wrong-flag branch of the handler *)

GetRateLimitLeaking(p) ==
  /\ pc[p] = "getRateLimit"
  /\ LET rows == RowsOf(rateLimits, loc[p].userId, loc[p].challengeId)
         flag == challenges[loc[p].challengeId].flag
         near == /\ Trim(loc[p].flag) # <<>> /\ Trim(flag) # <<>>
                 /\ Head(Trim(loc[p].flag)) = Head(Trim(flag))
         Cont(prev) ==
           LET attempts == prev + 1
               delay == IF near THEN Delay1 ELSE delayFor(attempts)
           IN loc' = [loc EXCEPT ![p].attempts = attempts, ![p].delay = delay,
                        ![p].now = now, ![p].nextAllowedAt = now + delay]
     IN IF rows = {} THEN Cont(0)
        ELSE \E i \in rows : Cont(rateLimits[i].attempts)
  /\ Goto(p, IF store = "db" THEN "updateGetExisting" ELSE "memUpdateRateLimit")
  /\ UNCHANGED <<store, routes, rateLimitMap, now, dbvars, reqCount>>

(* storage.getRateLimit, attempts + 1, the delay and nextAllowedAt *)
GetRateLimit(p) ==
  /\ pc[p] = "getRateLimit"
  /\ LET rows == RowsOf(rateLimits, loc[p].userId, loc[p].challengeId)
         Cont(prev) ==
           LET attempts == prev + 1
               delay == delayFor(attempts)
           IN loc' = [loc EXCEPT ![p].attempts = attempts, ![p].delay = delay,
                        ![p].now = now, ![p].nextAllowedAt = now + delay]
     IN IF rows = {} THEN Cont(0)
        ELSE \E i \in rows : Cont(rateLimits[i].attempts)
  /\ Goto(p, IF store = "db" THEN "updateGetExisting" ELSE "memUpdateRateLimit")
  /\ UNCHANGED <<store, routes, rateLimitMap, now, dbvars, reqCount>>

RateLimitRow(p) ==
  [userId |-> loc[p].userId, challengeId |-> loc[p].challengeId,
   attempts |-> loc[p].attempts, lastAttempt |-> now,
   nextAllowedAt |-> loc[p].nextAllowedAt]

(* DatabaseStorage.updateRateLimit: getRateLimit, then update or insert *)
DbUpdateGetExisting(p) ==
  /\ pc[p] = "updateGetExisting"
  /\ loc' = [loc EXCEPT ![p].existing =
               (RowsOf(rateLimits, loc[p].userId, loc[p].challengeId) # {})]
  /\ Goto(p, "upsertRateLimit")
  /\ UNCHANGED <<store, routes, rateLimitMap, now, dbvars, reqCount>>

DbUpsertRateLimit(p) ==
  /\ pc[p] = "upsertRateLimit"
  /\ rateLimits' =
       IF loc[p].existing
       THEN [i \in DOMAIN rateLimits |->
               IF i \in RowsOf(rateLimits, loc[p].userId, loc[p].challengeId)
               THEN RateLimitRow(p) ELSE rateLimits[i]]
       ELSE Append(rateLimits, RateLimitRow(p))
  /\ Finish(p, "wrong")
  /\ UNCHANGED <<store, routes, rateLimitMap, now, users, challenges, solves, flagSubmissions,
                 achievements, hintUsage, reqCount>>

MemUpdateRateLimit(p) ==
  /\ pc[p] = "memUpdateRateLimit"
  /\ rateLimits' = MapSet(rateLimits, RateLimitRow(p))
  /\ Finish(p, "wrong")
  /\ UNCHANGED <<store, routes, rateLimitMap, now, users, challenges, solves, flagSubmissions,
                 achievements, hintUsage, reqCount>>

----------------------------------------------------------------------------
(* DatabaseStorage.useHint *)

UseHint(p, u, c, h, maxReqs) ==
  /\ pc[p] \in {"idle", "done"}
  /\ store = "db"
  /\ Requests < maxReqs
  /\ pc' = [pc EXCEPT ![p] = "hintInsert"]
  /\ loc' = [loc EXCEPT ![p] = [LocInit EXCEPT !.op = "hintNew", !.userId = u,
                !.challengeId = c, !.hintIndex = h]]
  /\ UNCHANGED <<store, routes, rateLimitMap, now, dbvars, reqCount>>

HintInsert(p) ==
  /\ pc[p] = "hintInsert"
  /\ hintUsage' = Append(hintUsage, [userId |-> loc[p].userId,
                     challengeId |-> loc[p].challengeId,
                     hintIndex |-> loc[p].hintIndex])
  /\ Goto(p, "hintGetChallenge")
  /\ loc' = [loc EXCEPT ![p].op = "hint"]
  /\ UNCHANGED <<store, routes, rateLimitMap, now, users, challenges, solves, flagSubmissions,
                 rateLimits, achievements, reqCount>>

(* the cost of hints[hintIndex], when the challenge and the hint exist *)
HintGetChallenge(p) ==
  /\ pc[p] = "hintGetChallenge"
  /\ LET c == loc[p].challengeId
         h == loc[p].hintIndex + 1
     IN IF c \in DOMAIN challenges /\ h \in DOMAIN challenges[c].hints
        THEN /\ loc' = [loc EXCEPT ![p].hintCost = challenges[c].hints[h]]
             /\ Goto(p, "hintDeduct")
        ELSE Finish(p, "hint_none")
  /\ UNCHANGED <<store, routes, rateLimitMap, now, dbvars, reqCount>>

(* score = score - cost in one SQL statement *)
HintDeduct(p) ==
  /\ pc[p] = "hintDeduct"
  /\ users' = [users EXCEPT ![loc[p].userId].score = @ - loc[p].hintCost]
  /\ Finish(p, "hint_used")
  /\ UNCHANGED <<store, routes, rateLimitMap, now, challenges, solves, flagSubmissions, rateLimits,
                 achievements, hintUsage, reqCount>>

----------------------------------------------------------------------------
(* POST /api/challenges/:id/submit, in-memory rate-limit map variant *)

Min(a, b) == IF a <= b THEN a ELSE b
Max(a, b) == IF a >= b THEN a ELSE b

mapDelayUncapped(attempts) == MapDelayBase + (attempts - 1) * MapDelayStep

(* updateRateLimit of the routes: 5s, 10s, 15s max *)
mapDelay(attempts) ==
  Min(MapDelayBase + (attempts - 1) * MapDelayStep, MapDelayMax)

checkRateLimitStrictlyAfter(u, c, t) ==
  IF ~rateLimitMap[<<u, c>>].present THEN TRUE
  ELSE t > rateLimitMap[<<u, c>>].nextAllowedAt

(* checkRateLimit of the routes *)
checkRateLimit(u, c, t) ==
  IF ~rateLimitMap[<<u, c>>].present THEN TRUE
  ELSE t >= rateLimitMap[<<u, c>>].nextAllowedAt

(* !submittedFlag || typeof submittedFlag !== 'string' *)
flagMissing(body) == ~body.isString \/ body.text = <<>>

(* A request arrives: the flag check, then checkRateLimit, which awaits no  *)
(* input or output and so runs in the macrotask of the arrival.             *)
SubmitMap(p, u, c, body, maxReqs) ==
  /\ routes = "map"
  /\ pc[p] \in {"idle", "done"}
  /\ Requests < maxReqs
  /\ store = "mem" => Quiescent
  /\ LET l == [LocInit EXCEPT !.op = "submit", !.userId = u, !.challengeId = c,
                               !.solvedOnArrival = HasSolve(u, c)]
     IN IF flagMissing(body)
        THEN /\ pc' = [pc EXCEPT ![p] = "done"]
             /\ loc' = [loc EXCEPT ![p] = Response(l, "error")]
             /\ UNCHANGED reqCount
        ELSE /\ reqCount' = [reqCount EXCEPT ![<<u, c>>] = @ + 1]
             /\ IF checkRateLimit(u, c, now)
                THEN /\ pc' = [pc EXCEPT ![p] = "mGetSolve"]
                     /\ loc' = [loc EXCEPT ![p] = [l EXCEPT !.flag = body.text]]
                ELSE /\ pc' = [pc EXCEPT ![p] = "done"]
                     /\ loc' = [loc EXCEPT ![p] =
                           Response([l EXCEPT !.flag = body.text], "rate_limited")]
  /\ UNCHANGED <<store, routes, rateLimitMap, now, dbvars>>

MapGetSolve(p) ==
  /\ pc[p] = "mGetSolve"
  /\ IF HasSolve(loc[p].userId, loc[p].challengeId)
     THEN Finish(p, "already_solved")
     ELSE Goto(p, "mGetChallenge") /\ UNCHANGED loc
  /\ UNCHANGED <<store, routes, rateLimitMap, now, dbvars, reqCount>>

MapGetChallenge(p) ==
  /\ pc[p] = "mGetChallenge"
  /\ LET c == loc[p].challengeId
     IN IF c \notin DOMAIN challenges
        THEN Finish(p, "not_found")
        ELSE /\ Goto(p, "mCreateSubmission")
             /\ loc' = [loc EXCEPT
                   ![p].isCorrect = isCorrectFlag(loc[p].flag, challenges[c].flag),
                   ![p].points = challenges[c].points]
  /\ UNCHANGED <<store, routes, rateLimitMap, now, dbvars, reqCount>>

MapCreateFlagSubmission(p) ==
  /\ pc[p] = "mCreateSubmission"
  /\ flagSubmissions' = Append(flagSubmissions, SubmissionRow(p))
  /\ Goto(p, IF loc[p].isCorrect THEN "mCheckFirstBlood" ELSE "mGetSubmissions")
  /\ UNCHANGED <<store, routes, rateLimitMap, now, loc, users, challenges,
                 solves, rateLimits, achievements, hintUsage, reqCount>>

(* storage.checkFirstBlood of the handler, for the response; createSolve    *)
(* follows                                                                  *)
MapCheckFirstBlood(p) ==
  /\ pc[p] = "mCheckFirstBlood"
  /\ loc' = [loc EXCEPT ![p].firstBloodSeen = checkFirstBlood(loc[p].challengeId)]
  /\ Goto(p, IF store = "db" THEN "checkFirstBlood" ELSE "memCreateSolve")
  /\ UNCHANGED <<store, routes, rateLimitMap, now, dbvars, reqCount>>

(* storage.getFlagSubmissions: attempts is the number of rows of the pair *)
MapGetSubmissions(p) ==
  /\ pc[p] = "mGetSubmissions"
  /\ LET n == Cardinality(RowsOf(flagSubmissions, loc[p].userId, loc[p].challengeId))
     IN loc' = [loc EXCEPT ![p].attempts = n,
                           ![p].remaining = Max(0, AttemptsShown - n)]
  /\ Goto(p, "mUpdateRateLimit")
  /\ UNCHANGED <<store, routes, rateLimitMap, now, dbvars, reqCount>>

MapUpdateRateLimitKeyedByUser(p) ==
  /\ pc[p] = "mUpdateRateLimit"
  /\ rateLimitMap' = [pr \in Pairs |->
        IF pr[1] = loc[p].userId
        THEN [present |-> TRUE, attempts |-> loc[p].attempts,
              nextAllowedAt |-> now + mapDelay(loc[p].attempts)]
        ELSE rateLimitMap[pr]]
  /\ pc' = [pc EXCEPT ![p] = "done"]
  /\ loc' = [loc EXCEPT ![p] = Response([loc[p] EXCEPT !.now = now], "wrong")]
  /\ UNCHANGED <<store, routes, now, dbvars, reqCount>>

(* updateRateLimit of the routes, then the response *)
MapUpdateRateLimit(p) ==
  /\ pc[p] = "mUpdateRateLimit"
  /\ rateLimitMap' = [rateLimitMap EXCEPT ![<<loc[p].userId, loc[p].challengeId>>] =
        [present |-> TRUE, attempts |-> loc[p].attempts,
         nextAllowedAt |-> now + mapDelay(loc[p].attempts)]]
  /\ pc' = [pc EXCEPT ![p] = "done"]
  /\ loc' = [loc EXCEPT ![p] = Response([loc[p] EXCEPT !.now = now], "wrong")]
  /\ UNCHANGED <<store, routes, now, dbvars, reqCount>>

MapStep(p) ==
  \/ MapGetSolve(p)
  \/ MapGetChallenge(p)
  \/ MapCreateFlagSubmission(p)
  \/ MapCheckFirstBlood(p)
  \/ MapGetSubmissions(p)
  \/ MapUpdateRateLimit(p)

----------------------------------------------------------------------------
(* PUT /api/admin/challenges/:id *)

(* the edits an admin makes: new points, or the isActive switch *)
AdminUpdates ==
  { [field |-> "points", points |-> v, isActive |-> TRUE] : v \in {50, 300} }
    \cup { [field |-> "isActive", points |-> 0, isActive |-> b] : b \in BOOLEAN }

(* { ...challenge, ...updates } *)
Merged(challenge, updates) ==
  IF updates.field = "points"
  THEN [challenge EXCEPT !.points = updates.points]
  ELSE [challenge EXCEPT !.isActive = updates.isActive]

(* storage.updateChallenge: one statement; an unknown id changes nothing   *)
(* and is answered 404                                                     *)
UpdateChallenge(c, updates) ==
  /\ c \in DOMAIN challenges
  /\ challenges' = [challenges EXCEPT ![c] = Merged(@, updates)]
  /\ UNCHANGED <<store, routes, rateLimitMap, now, pc, loc, users, solves,
                 flagSubmissions, rateLimits, achievements, hintUsage, reqCount>>

----------------------------------------------------------------------------
(* DatabaseStorage.getChallengeAnalytics *)

difficultyRatingUncapped(attempts, solvers) ==
  IF attempts > 0 THEN (2 * attempts) \div Max(1, solvers) ELSE RatingDefault

(* Math.min(10, Math.floor((attempts / Math.max(1, solvers)) * 2)), or 5;  *)
(* doubling a double is exact, so the floor is that of 2 * attempts over   *)
(* the divisor                                                             *)
difficultyRating(attempts, solvers) ==
  IF attempts > 0
  THEN Min(RatingMax, (2 * attempts) \div Max(1, solvers))
  ELSE RatingDefault

GetChallengeAnalytics(p, c) ==
  /\ pc[p] \in {"idle", "done"}
  /\ store = "db"
  /\ pc' = [pc EXCEPT ![p] = "analyticsAttempts"]
  /\ loc' = [loc EXCEPT ![p] = [LocInit EXCEPT !.op = "analytics", !.challengeId = c]]
  /\ UNCHANGED <<store, routes, rateLimitMap, now, dbvars, reqCount>>

(* select count() from flag_submissions where challenge_id = c *)
AnalyticsAttempts(p) ==
  /\ pc[p] = "analyticsAttempts"
  /\ loc' = [loc EXCEPT ![p].attempts =
               Cardinality(ChallengeRows(flagSubmissions, loc[p].challengeId))]
  /\ Goto(p, "analyticsSolvers")
  /\ UNCHANGED <<store, routes, rateLimitMap, now, dbvars, reqCount>>

(* select count() from solves where challenge_id = c *)
AnalyticsSolvers(p) ==
  /\ pc[p] = "analyticsSolvers"
  /\ loc' = [loc EXCEPT ![p].solvers =
               Cardinality(ChallengeRows(solves, loc[p].challengeId))]
  /\ Goto(p, "analyticsAvg")
  /\ UNCHANGED <<store, routes, rateLimitMap, now, dbvars, reqCount>>

(* select avg(solve_time), which is null in every row; then the rating *)
AnalyticsAvg(p) ==
  /\ pc[p] = "analyticsAvg"
  /\ pc' = [pc EXCEPT ![p] = "done"]
  /\ loc' = [loc EXCEPT ![p] =
        [LocInit EXCEPT !.op = "analytics", !.challengeId = loc[p].challengeId,
           !.attempts = loc[p].attempts, !.solvers = loc[p].solvers,
           !.rating = difficultyRating(loc[p].attempts, loc[p].solvers),
           !.result = "analytics"]]
  /\ UNCHANGED <<store, routes, rateLimitMap, now, dbvars, reqCount>>

AnalyticsStep(p) ==
  \/ AnalyticsAttempts(p)
  \/ AnalyticsSolvers(p)
  \/ AnalyticsAvg(p)

----------------------------------------------------------------------------
(* Steps of a request in progress *)

SubmitStep(p) ==
  \/ CanSubmit(p)
  \/ GetSolve(p)
  \/ GetChallenge(p)
  \/ CreateFlagSubmission(p)
  \/ DbCheckFirstBlood(p)
  \/ DbSolveGetChallenge(p)
  \/ DbInsertSolve(p)
  \/ DbGetUser(p)
  \/ DbUpdateUser(p)
  \/ DbIncTotalSolves(p)
  \/ DbGetUserSolves(p)
  \/ DbInsertAchievements(p)
  \/ MemCreateSolve(p)
  \/ GetRateLimit(p)
  \/ DbUpdateGetExisting(p)
  \/ DbUpsertRateLimit(p)
  \/ MemUpdateRateLimit(p)

HintStep(p) ==
  \/ HintInsert(p)
  \/ HintGetChallenge(p)
  \/ HintDeduct(p)

(* Concurrent requests *)
Next ==
  \/ TickSec(MaxSecTicks)
  \/ \E p \in Procs, u \in Users, c \in ReqChallengeIds, body \in Bodies :
       Submit(p, u, c, body, MaxReqs)
  \/ \E p \in Procs, u \in Users, c \in Challenges, h \in HintIndexes :
       UseHint(p, u, c, h, MaxReqs)
  \/ \E p \in Procs : SubmitStep(p)
  \/ \E p \in Procs : HintStep(p)

Spec == Init /\ [][Next]_vars

(* One request at a time, seconds apart *)
RateNext ==
  \/ Quiescent /\ TickSec(RateMaxSecTicks)
  \/ \E u \in RateUsers, c \in ReqChallengeIds, body \in Bodies :
       Quiescent /\ Submit(1, u, c, body, RateMaxReqs)
  \/ SubmitStep(1)

RateSpec == Init /\ [][RateNext]_vars

(* One request at a time, half days apart *)
StreakNext ==
  \/ Quiescent /\ TickHalfDay(StreakMaxHalfDays)
  \/ \E u \in Users, c \in ReqChallengeIds, body \in Bodies :
       Quiescent /\ Submit(1, u, c, body, StreakMaxReqs)
  \/ SubmitStep(1)

StreakSpec == Init /\ [][StreakNext]_vars

(* Three requests of one user, any two of them in progress together, at   *)
(* one instant                                                             *)
RaceNext ==
  \/ \E p \in Procs, u \in RateUsers, c \in Challenges, body \in Bodies :
       Submit(p, u, c, body, RaceMaxReqs)
  \/ \E p \in Procs : SubmitStep(p)

RaceSpec == Init /\ [][RaceNext]_vars

(* Admin edits and player requests, one request at a time *)
AdminNext ==
  \/ \E c \in Challenges, updates \in AdminUpdates :
       Quiescent /\ UpdateChallenge(c, updates)
  \/ \E u \in Users, c \in Challenges, body \in Bodies :
       Quiescent /\ Submit(1, u, c, body, AdminMaxReqs)
  \/ SubmitStep(1)

AdminSpec == Init /\ [][AdminNext]_vars

(* One request at a time; the statements that award achievements may fail *)
FaultNext ==
  \/ \E u \in Users, c \in Challenges, body \in Bodies :
       Quiescent /\ Submit(1, u, c, body, FaultMaxReqs)
  \/ SubmitStep(1)
  \/ FaultStep(1)

FaultSpec == Init /\ [][FaultNext]_vars

(* One request at a time; any awaited statement of createSolve may fail *)
PersistNext ==
  \/ \E u \in Users, c \in Challenges, body \in Bodies :
       Quiescent /\ Submit(1, u, c, body, PersistMaxReqs)
  \/ SubmitStep(1)
  \/ FaultStep(1)
  \/ PersistFaultStep(1)

PersistSpec == Init /\ [][PersistNext]_vars

(* Submissions to challenge 1, one request at a time, and its analytics *)
AnalyticsNext ==
  \/ Quiescent /\ TickSec(AnalyticsMaxSecTicks)
  \/ \E u \in Users, f \in FlagTexts :
       Quiescent /\ Submit(1, u, 1, [isString |-> TRUE, text |-> f], AnalyticsMaxReqs)
  \/ Quiescent /\ GetChallengeAnalytics(1, 1)
  \/ SubmitStep(1)
  \/ AnalyticsStep(1)

AnalyticsSpec == Init /\ [][AnalyticsNext]_vars

(* Either route file, challenge 1 holding any of the stored flags; one     *)
(* request at a time                                                       *)
InputInit ==
  /\ store \in {"db", "mem"}
  /\ routes \in {"persisted", "map"}
  /\ now = 0
  /\ pc = [p \in Procs |-> "idle"]
  /\ loc = [p \in Procs |-> LocInit]
  /\ users = [u \in Users |-> InitUser(store)]
  /\ \E f \in StoredFlags :
       challenges = [c \in Challenges |->
                       IF c = 1 THEN [InitChallenge(c) EXCEPT !.flag = f]
                       ELSE InitChallenge(c)]
  /\ solves = <<>>
  /\ flagSubmissions = <<>>
  /\ rateLimits = <<>>
  /\ rateLimitMap = [pr \in Pairs |-> NoLimit]
  /\ achievements = [u \in Users |-> [t \in {"first_blood", "first_solve", "solver", "expert"} |-> 0]]
  /\ hintUsage = <<>>
  /\ reqCount = [pr \in Pairs |-> 0]

InputNext ==
  \/ Quiescent /\ TickSec(InputMaxSecTicks)
  \/ \E u \in RateUsers, c \in ReqChallengeIds, body \in InputBodies :
       Quiescent /\ Submit(1, u, c, body, InputMaxReqs)
  \/ \E u \in RateUsers, c \in ReqChallengeIds, body \in InputBodies :
       Quiescent /\ SubmitMap(1, u, c, body, InputMaxReqs)
  \/ SubmitStep(1)
  \/ MapStep(1)

InputSpec == InputInit /\ [][InputNext]_vars

(* Either route file over either storage: one user submitting on one       *)
(* challenge, one request at a time, seconds passing between requests      *)
EquivInit ==
  /\ store \in {"db", "mem"}
  /\ routes \in {"persisted", "map"}
  /\ now = 0
  /\ pc = [p \in Procs |-> "idle"]
  /\ loc = [p \in Procs |-> LocInit]
  /\ users = [u \in Users |-> InitUser(store)]
  /\ challenges = [c \in Challenges |-> InitChallenge(c)]
  /\ solves = <<>>
  /\ flagSubmissions = <<>>
  /\ rateLimits = <<>>
  /\ rateLimitMap = [pr \in Pairs |-> NoLimit]
  /\ achievements = [u \in Users |-> [t \in {"first_blood", "first_solve", "solver", "expert"} |-> 0]]
  /\ hintUsage = <<>>
  /\ reqCount = [pr \in Pairs |-> 0]

EquivNext ==
  \/ Quiescent /\ TickSec(EquivMaxSecTicks)
  \/ \E u \in RateUsers, body \in Bodies :
       Quiescent /\ Submit(1, u, 1, body, EquivMaxReqs)
  \/ \E u \in RateUsers, body \in Bodies :
       Quiescent /\ SubmitMap(1, u, 1, body, EquivMaxReqs)
  \/ SubmitStep(1)
  \/ MapStep(1)

EquivSpec == EquivInit /\ [][EquivNext]_vars

(* Either route file over either storage: two requests on challenge 1, by  *)
(* any users, in progress together, at one instant                         *)
BloodNext ==
  \/ \E p \in Procs, u \in Users, body \in Bodies :
       Submit(p, u, 1, body, BloodMaxReqs)
  \/ \E p \in Procs, u \in Users, body \in Bodies :
       SubmitMap(p, u, 1, body, BloodMaxReqs)
  \/ \E p \in Procs : SubmitStep(p)
  \/ \E p \in Procs : MapStep(p)

BloodSpec == EquivInit /\ [][BloodNext]_vars

----------------------------------------------------------------------------
(* Properties *)

Correct(text, c) == c \in Challenges /\ Trim(text) = FlagOf(c)

WrongRows(u, c) ==
  { i \in RowsOf(flagSubmissions, u, c) : ~Correct(flagSubmissions[i].submittedFlag, c) }

(* C1: concurrent correct submissions of one user on one challenge record  *)
(* exactly one Solve for the pair, and its totalSolves increment is        *)
(* applied once.                                                           *)
C1_OneSolvePerPair ==
  \A u \in Users, c \in Challenges :
    /\ Cardinality(RowsOf(solves, u, c)) <= 1
    /\ Quiescent =>
         challenges[c].totalSolves <=
           Cardinality({ v \in Users : RowsOf(solves, v, c) # {} })

(* C2: for every challenge, exactly one of its Solves is first blood when  *)
(* it has a Solve, and none otherwise.                                     *)
C2_OneFirstBlood ==
  \A c \in Challenges :
    LET rows == ChallengeRows(solves, c)
        fb == { i \in rows : solves[i].isFirstBlood }
    IN IF rows = {} THEN fb = {} ELSE Cardinality(fb) = 1

(* The delay the specification states for the k-th consecutive wrong       *)
(* submission                                                              *)
StatedDelay(k) == CASE k = 1 -> 5 [] k = 2 -> 10 [] OTHER -> 15

(* C3: the k-th consecutive accepted wrong submission of a fresh pair      *)
(* records attempts = k and nextAllowedAt = now + delay(k), delay(k) being *)
(* 5, 10, then 15 from k = 3 on, and answers with that delay.              *)
C3_DelaySequence ==
  \A p \in Procs :
    (pc[p] = "done" /\ loc[p].op = "submit" /\ loc[p].result = "wrong") =>
      LET u == loc[p].userId
          c == loc[p].challengeId
          k == Cardinality(RowsOf(flagSubmissions, u, c))
          rows == RowsOf(rateLimits, u, c)
      IN /\ k >= 1
         /\ Cardinality(rows) = 1
         /\ \A i \in rows :
              /\ rateLimits[i].attempts = k
              /\ rateLimits[i].nextAllowedAt = loc[p].now + StatedDelay(k)
         /\ loc[p].delay = StatedDelay(k)

C3_Witness ==
  \E p \in Procs :
    /\ pc[p] = "done" /\ loc[p].result = "wrong" /\ loc[p].delay = 15
    /\ \E i \in RowsOf(rateLimits, loc[p].userId, loc[p].challengeId) :
         rateLimits[i].attempts = 4

(* C4: however they end, N submission attempts of a pair leave exactly N   *)
(* FlagSubmission rows of that pair.                                       *)
C4_OneRowPerAttempt ==
  Quiescent =>
    \A u \in Users, c \in Challenges :
      Cardinality(RowsOf(flagSubmissions, u, c)) = reqCount[<<u, c>>]

RECURSIVE SumRows(_, _, _)
SumRows(Val(_, _), table, S) ==
  IF S = {} THEN 0
  ELSE LET i == CHOOSE j \in S : TRUE
       IN Val(table, i) + SumRows(Val, table, S \ {i})

BasePoints(table, i) == challenges[table[i].challengeId].points

Awarded(table, i) == table[i].pointsAwarded

WithBonus(table, i) ==
  BasePoints(table, i) + (IF table[i].isFirstBlood THEN 50 ELSE 0)

CostOf(table, i) ==
  LET c == table[i].challengeId
      h == table[i].hintIndex + 1
  IN IF c \in DOMAIN challenges /\ h \in DOMAIN challenges[c].hints
     THEN challenges[c].hints[h] ELSE 0

(* C6 as stated: every recorded solve of a challenge worth p adds exactly  *)
(* p, the Solve's pointsAwarded, to the user's score and 1 to the          *)
(* challenge's totalSolves, first blood or not.  With requests served one  *)
(* at a time from zero scores: the score is the sum of p over the user's   *)
(* Solves and totalSolves is the number of Solves of the challenge.        *)
C6_ScoreAndTotalSolves ==
  Quiescent =>
    /\ \A u \in Users :
         users[u].score = SumRows(BasePoints, solves, UserRows(solves, u))
    /\ \A i \in DOMAIN solves : solves[i].pointsAwarded = BasePoints(solves, i)
    /\ \A c \in Challenges :
         challenges[c].totalSolves = Cardinality(ChallengeRows(solves, c))

(* What each storage does on a recorded solve (see C6): DatabaseStorage    *)
(* adds exactly p, its pointsAwarded, to the score and 1 to totalSolves,   *)
(* first blood or not; MemStorage adds p, plus 50 when it is first blood,  *)
(* and writes neither pointsAwarded nor totalSolves.                       *)
C6_ScoreAndTotalSolvesByStorage ==
  Quiescent =>
    IF store = "db"
    THEN /\ \A u \in Users :
              users[u].score = SumRows(BasePoints, solves, UserRows(solves, u))
         /\ \A i \in DOMAIN solves : solves[i].pointsAwarded = BasePoints(solves, i)
         /\ \A c \in Challenges :
              challenges[c].totalSolves = Cardinality(ChallengeRows(solves, c))
    ELSE /\ \A u \in Users :
              users[u].score = SumRows(WithBonus, solves, UserRows(solves, u))
         /\ \A i \in DOMAIN solves : solves[i].pointsAwarded = NULL
         /\ \A c \in Challenges : challenges[c].totalSolves = 0

(* C7: after any interleaving of a user's correct submissions on distinct  *)
(* challenges and hint uses, the score is the sum of pointsAwarded over    *)
(* the user's Solves minus the hint costs deducted.                        *)
C7_NoLostScoreUpdate ==
  (Quiescent /\ store = "db") =>
    \A u \in Users :
      (\A c \in Challenges : Cardinality(RowsOf(solves, u, c)) <= 1) =>
        users[u].score = SumRows(Awarded, solves, UserRows(solves, u))
                           - SumRows(CostOf, hintUsage, UserRows(hintUsage, u))

(* C8: when k wrong submissions of a pair were admitted, the pair's        *)
(* RateLimit record ends with attempts = k.                                *)
C8_AttemptsCountAdmitted ==
  Quiescent =>
    \A u \in Users, c \in Challenges :
      \A i \in RowsOf(rateLimits, u, c) :
        rateLimits[i].attempts = Cardinality(WrongRows(u, c))

(* the step of a request that writes the user's row for a solve *)
RecordsSolve(p) ==
  \/ pc[p] = "updateUser" /\ pc'[p] = "incTotalSolves"
  \/ pc[p] = "memCreateSolve" /\ pc'[p] = "done"

StatedStreak(user, t, streak) ==
  IF user.lastSolveAt = NULL THEN streak = 1
  ELSE LET d == (t - user.lastSolveAt) \div DayLen
       IN /\ d = 1 => streak = user.solveStreak + 1
          /\ d > 1 => streak = 1
          /\ d = 0 => streak = user.solveStreak

(* C9: each recorded solve sets solveStreak to 1 when the user has no      *)
(* lastSolveAt, adds 1 when d = 1, sets 1 when d > 1 and leaves it when    *)
(* d = 0, d being the whole days since lastSolveAt.                        *)
C9_StreakRule ==
  [][ \A p \in Procs :
        RecordsSolve(p) =>
          StatedStreak(users[loc[p].userId], now,
                       users'[loc[p].userId].solveStreak) ]_vars

(* The rule of C9 on the DatabaseStorage path alone *)
C9_StreakRuleDatabaseStorage ==
  [][ \A p \in Procs :
        (store = "db" /\ RecordsSolve(p)) =>
          StatedStreak(users[loc[p].userId], now,
                       users'[loc[p].userId].solveStreak) ]_vars

SolveDays(u) == { solves[i].solvedAt \div DayLen : i \in UserRows(solves, u) }

CalendarStreak(u) ==
  LET days == SolveDays(u)
      last == CHOOSE d \in days : \A e \in days : e <= d
  IN Cardinality({ n \in 1..Cardinality(days) :
                     \A k \in 0..(n - 1) : (last - k) \in days })

(* C10: after any sequence of solves, solveStreak is the number of         *)
(* consecutive calendar days, ending with the day of the latest solve, on  *)
(* which the user solved something.                                        *)
C10_CalendarStreak ==
  (Quiescent /\ store = "db") =>
    \A u \in Users :
      UserRows(solves, u) # {} => users[u].solveStreak = CalendarStreak(u)

(* C11: every recorded solve sets the user's lastSolveAt to the time of    *)
(* that solve, whatever the streak branch.                                 *)
C11_LastSolveAt ==
  [][ \A p \in Procs :
        RecordsSolve(p) => users'[loc[p].userId].lastSolveAt = now ]_vars

(* The rule of C11 on the DatabaseStorage path alone *)
C11_LastSolveAtDatabaseStorage ==
  [][ \A p \in Procs :
        (store = "db" /\ RecordsSolve(p)) =>
          users'[loc[p].userId].lastSolveAt = now ]_vars

(* a step of a request that arrived when a Solve of its pair existed *)
LaterStep(p) ==
  /\ <<pc[p], loc[p]>> # <<pc'[p], loc'[p]>>
  /\ loc'[p].op = "submit"
  /\ loc'[p].solvedOnArrival
  /\ loc'[p].result # "error"

C13_InactiveRejected ==
  [][ \A p \in Procs :
        ( /\ <<pc[p], loc[p]>> # <<pc'[p], loc'[p]>>
          /\ loc'[p].op = "submit"
          /\ loc'[p].challengeId \in DOMAIN challenges
          /\ ~challenges[loc'[p].challengeId].isActive ) =>
          /\ UNCHANGED <<solves, users, challenges>>
          /\ pc'[p] = "done" => loc'[p].result # "correct" ]_vars

(* C14: a Solve's pointsAwarded is the challenge's points at the moment    *)
(* the solve is recorded, and a later change of the challenge's points     *)
(* changes no existing Solve's pointsAwarded and no user's score.          *)
C14_PointsAwardedFixed ==
  [][ /\ \A i \in DOMAIN solves' \ DOMAIN solves :
           solves'[i].pointsAwarded = challenges[solves'[i].challengeId].points
      /\ \A i \in DOMAIN solves :
           i \in DOMAIN solves' /\ solves'[i].pointsAwarded = solves[i].pointsAwarded
      /\ (\E c \in Challenges : challenges'[c].points # challenges[c].points) =>
           UNCHANGED <<solves, users>> ]_vars

(* The rule of C14 on the DatabaseStorage path alone *)
C14_PointsAwardedFixedDatabaseStorage ==
  [][ store = "db" =>
      /\ \A i \in DOMAIN solves' \ DOMAIN solves :
           solves'[i].pointsAwarded = challenges[solves'[i].challengeId].points
      /\ \A i \in DOMAIN solves :
           i \in DOMAIN solves' /\ solves'[i].pointsAwarded = solves[i].pointsAwarded
      /\ (\E c \in Challenges : challenges'[c].points # challenges[c].points) =>
           UNCHANGED <<solves, users>> ]_vars

(* C15: a Solve, once created, is never deleted and its solvedAt,          *)
(* isFirstBlood and pointsAwarded never change, under any interleaving of  *)
(* submissions.                                                            *)
C15_SolvesImmutable ==
  [][ \A i \in DOMAIN solves :
        i \in DOMAIN solves' /\ solves'[i] = solves[i] ]_vars

C15_Witness ==
  \E p \in Procs :
    /\ pc[p] = "done" /\ loc[p].solvedOnArrival
    /\ loc[p].result = "already_solved"
    /\ Correct(loc[p].flag, loc[p].challengeId)
    /\ \E i \in RowsOf(solves, loc[p].userId, loc[p].challengeId) :
         solves[i].isFirstBlood /\ solves[i].solvedAt < now

(* The text between the first and the last character that is not         *)
(* whitespace                                                              *)
Stripped(s) ==
  LET inked == { i \in DOMAIN s : s[i] \notin {" ", "\t", "\n"} }
  IN IF inked = {} THEN <<>>
     ELSE LET first == CHOOSE i \in inked : \A j \in inked : i <= j
              last == CHOOSE i \in inked : \A j \in inked : j <= i
          IN [k \in 1..(last - first + 1) |-> s[first + k - 1]]

(* C16: a submission is judged correct exactly when the submitted text     *)
(* without its leading and trailing whitespace equals, character for       *)
(* character, the stored flag without its leading and trailing whitespace. *)
C16_TrimmedExactMatch ==
  \A p \in Procs :
    ( /\ pc[p] = "done" /\ loc[p].op = "submit"
      /\ loc[p].result \in {"correct", "wrong"} ) =>
      ( loc[p].result = "correct" <=>
          Stripped(loc[p].flag) = Stripped(challenges[loc[p].challengeId].flag) )

C16_Witness ==
  \E p \in Procs :
    /\ pc[p] = "done" /\ loc[p].result = "correct"
    /\ loc[p].flag = <<"\n", "F", "a", " ">>
    /\ challenges[loc[p].challengeId].flag = <<" ", "F", "a", "\t">>
    /\ \E i \in DOMAIN flagSubmissions :
         /\ flagSubmissions[i].challengeId = loc[p].challengeId
         /\ flagSubmissions[i].submittedFlag \in {<<"f", "a">>, <<"F", " ", "a">>}

(* a step that starts or advances a request whose flag is empty or not a  *)
(* string                                                                  *)
FlaglessStep(p) ==
  /\ <<pc[p], loc[p]>> # <<pc'[p], loc'[p]>>
  /\ loc'[p].op = "submit"
  /\ loc'[p].flag = <<>>

(* C17: a submission whose flag is empty or not a string is rejected       *)
(* before the rate limiter is consulted and leaves the state unchanged: no *)
(* FlagSubmission row, no RateLimit change, no Solve.                      *)
C17_InvalidRejectedFirst ==
  [][ \A p \in Procs :
        FlaglessStep(p) =>
          /\ pc'[p] = "done" /\ loc'[p].result = "error"
          /\ UNCHANGED <<dbvars, rateLimitMap>> ]_vars

(* The rule of C17 on the routes that keep the rate limits in a map *)
C17_InvalidRejectedFirstMapRoutes ==
  [][ \A p \in Procs :
        (routes = "map" /\ FlaglessStep(p)) =>
          /\ pc'[p] = "done" /\ loc'[p].result = "error"
          /\ UNCHANGED <<dbvars, rateLimitMap>> ]_vars

(* the step that ends the awarding of achievements of a correct           *)
(* submission                                                              *)
AwardEnds(p) ==
  /\ pc[p] \in {"getUserSolves", "insertAchievements"}
  /\ pc'[p] = "done"

(* C18: when awarding an achievement fails during a correct submission,    *)
(* the solve stands (Solve row, score and totalSolves updated) and the     *)
(* submission still returns the success result.                            *)
C18_AwardFailureHarmless ==
  [][ \A p \in Procs :
        AwardEnds(p) =>
          /\ HasSolve(loc[p].userId, loc[p].challengeId)'
          /\ UNCHANGED <<solves, users, challenges>>
          /\ loc'[p].result = "correct" ]_vars

(* The half of C18 that holds: the failure undoes nothing of the solve *)
C18_AwardFailureKeepsSolve ==
  [][ \A p \in Procs :
        AwardEnds(p) =>
          /\ HasSolve(loc[p].userId, loc[p].challengeId)'
          /\ UNCHANGED <<solves, users, challenges>> ]_vars

(* a request that was judged wrong and has not responded yet *)
WrongPath(p) ==
  \/ pc[p] \in {"createSubmission", "mCreateSubmission"} /\ ~loc[p].isCorrect
  \/ pc[p] \in {"getRateLimit", "updateGetExisting", "upsertRateLimit",
                "memUpdateRateLimit", "mGetSubmissions", "mUpdateRateLimit"}

(* what a wrong submission answers and records, from the number k of       *)
(* submissions logged for the pair and the time t of the answer            *)
WrongOutcome(p, k, t) ==
  LET u == loc[p].userId
      c == loc[p].challengeId
  IN IF routes = "persisted"
     THEN /\ loc[p].delay = delayFor(k) /\ loc[p].remaining = 0
          /\ Cardinality(RowsOf(rateLimits, u, c)) = 1
          /\ \A i \in RowsOf(rateLimits, u, c) :
               /\ rateLimits[i].attempts = k
               /\ rateLimits[i].nextAllowedAt = t + delayFor(k)
     ELSE /\ loc[p].delay = 0 /\ loc[p].remaining = Max(0, AttemptsShown - k)
          /\ rateLimitMap[<<u, c>>] =
               [present |-> TRUE, attempts |-> k,
                nextAllowedAt |-> t + mapDelay(k)]

(* C19: the response to a wrong submission and every state change it makes, *)
(* the logged submittedFlag text apart, are the same whatever the wrong     *)
(* text is: they are a function of the pair, of the number of submissions   *)
(* logged for it and of the time alone.                                     *)
C19_WrongTextBlind ==
  /\ [] \A p \in Procs :
          (pc[p] = "done" /\ loc[p].op = "submit" /\ loc[p].result = "wrong") =>
            WrongOutcome(p, Cardinality(RowsOf(flagSubmissions, loc[p].userId,
                                               loc[p].challengeId)), loc[p].now)
  /\ [][ \A p \in Procs :
           (WrongPath(p) /\ pc'[p] # pc[p]) =>
             /\ UNCHANGED <<solves, users, challenges, achievements, hintUsage>>
             /\ \/ flagSubmissions' = flagSubmissions
                \/ flagSubmissions' = Append(flagSubmissions,
                     [userId |-> loc[p].userId, challengeId |-> loc[p].challengeId,
                      submittedFlag |-> loc[p].flag, isCorrect |-> FALSE]) ]_vars

C19_Witness ==
  \E p \in Procs :
    /\ pc[p] = "done" /\ loc[p].result = "wrong"
    /\ loc[p].flag = <<"F">>
    /\ challenges[loc[p].challengeId].flag = <<"F", "a">>
    /\ \E i \in RowsOf(flagSubmissions, loc[p].userId, loc[p].challengeId) :
         flagSubmissions[i].submittedFlag = <<"f", "a">>

(* C20: there is at most one RateLimit record per (user, challenge) pair,  *)
(* also after concurrent wrong submissions of a pair that had no record,   *)
(* and a record once created is never deleted.                             *)
C20_OneRateLimitPerPair ==
  /\ [] \A u \in Users, c \in ReqChallengeIds :
          Cardinality(RowsOf(rateLimits, u, c)) <= 1
  /\ [][ \A u \in Users, c \in ReqChallengeIds :
           Cardinality(RowsOf(rateLimits', u, c)) >=
             Cardinality(RowsOf(rateLimits, u, c)) ]_vars

(* The half of C20 that holds: no RateLimit record is ever deleted *)
C20_RateLimitNeverDeleted ==
  [][ \A u \in Users, c \in ReqChallengeIds :
        Cardinality(RowsOf(rateLimits', u, c)) >=
          Cardinality(RowsOf(rateLimits, u, c)) ]_vars

(* the hints a user has used, each (challenge, hintIndex) once *)
HintsUsed(u) ==
  { <<hintUsage[i].challengeId, hintUsage[i].hintIndex>> : i \in UserRows(hintUsage, u) }

RECURSIVE SumCosts(_)
SumCosts(S) ==
  IF S = {} THEN 0
  ELSE LET x == CHOOSE y \in S : TRUE
           h == x[2] + 1
           cost == IF h \in DOMAIN HintsOf(x[1]) THEN HintsOf(x[1])[h] ELSE 0
       IN cost + SumCosts(S \ {x})

(* C21: using the same hint twice deducts its cost from the user's score   *)
(* at most once.  For a user without Solves: the score is not below minus  *)
(* the costs of the distinct hints used.                                   *)
C21_HintDeductedOnce ==
  \A u \in Users :
    UserRows(solves, u) = {} /\ (\A p \in Procs : pc[p] \in {"idle", "done"} \/ loc[p].userId # u) =>
      users[u].score >= 0 - SumCosts(HintsUsed(u))

(* the rating the specification states, from the rows of the challenge *)
StatedRating(c) ==
  LET attempts == Cardinality(ChallengeRows(flagSubmissions, c))
      solvers == Cardinality(ChallengeRows(solves, c))
      d == IF solvers >= 1 THEN solvers ELSE 1
      floor == CHOOSE q \in 0..(2 * attempts) :
                 q * d <= 2 * attempts /\ 2 * attempts < (q + 1) * d
  IN IF attempts = 0 THEN 5 ELSE IF floor <= 10 THEN floor ELSE 10

(* C22: getChallengeAnalytics returns difficultyRating 5 for a challenge   *)
(* without submissions and otherwise min(10, floor(2 * attempts /          *)
(* max(1, solvers))), attempts and solvers being the numbers of            *)
(* FlagSubmission and Solve rows of the challenge; it lies within 0..10.   *)
C22_DifficultyRating ==
  \A p \in Procs :
    (pc[p] = "done" /\ loc[p].op = "analytics") =>
      /\ loc[p].rating = StatedRating(loc[p].challengeId)
      /\ loc[p].rating \in 0..10

C22_Witness ==
  \E p \in Procs :
    /\ pc[p] = "done" /\ loc[p].op = "analytics"
    /\ loc[p].attempts >= 6 /\ loc[p].solvers = 0 /\ loc[p].rating = 10

(* C23: an admitted wrong submission changes only the RateLimit record of  *)
(* its own pair and appends one FlagSubmission row; every Solve, every     *)
(* user's score, solveStreak and lastSolveAt, every challenge's            *)
(* totalSolves and the RateLimit records of all other pairs stay as they   *)
(* are.                                                                    *)
C23_WrongSubmissionFrame ==
  [][ \A p \in Procs :
        (WrongPath(p) /\ pc'[p] # pc[p]) =>
          LET u == loc[p].userId
              c == loc[p].challengeId
              Own(row) == row.userId = u /\ row.challengeId = c
          IN /\ UNCHANGED <<solves, users, challenges>>
             /\ \A i \in DOMAIN rateLimits :
                  ~Own(rateLimits[i]) =>
                    i \in DOMAIN rateLimits' /\ rateLimits'[i] = rateLimits[i]
             /\ \A i \in DOMAIN rateLimits' \ DOMAIN rateLimits : Own(rateLimits'[i])
             /\ \A pr \in Pairs \ {<<u, c>>} : rateLimitMap'[pr] = rateLimitMap[pr]
             /\ IF pc[p] \in {"createSubmission", "mCreateSubmission"}
                THEN /\ Len(flagSubmissions') = Len(flagSubmissions) + 1
                     /\ SubSeq(flagSubmissions', 1, Len(flagSubmissions)) = flagSubmissions
                     /\ Own(flagSubmissions'[Len(flagSubmissions')])
                ELSE flagSubmissions' = flagSubmissions ]_vars

C23_Witness ==
  \E p \in Procs :
    /\ pc[p] = "done" /\ loc[p].op = "submit" /\ loc[p].result = "wrong"
    /\ \E pr \in Pairs \ {<<loc[p].userId, loc[p].challengeId>>} :
         \/ rateLimitMap[pr].present
         \/ RowsOf(rateLimits, pr[1], pr[2]) # {}

(* C24: after k admitted consecutive wrong submissions on a pair, the      *)
(* handler over the persisted table and the handler over the in-memory map *)
(* hold the same attempts value, k, and the same nextAllowedAt offset from *)
(* the time of the k-th submission, for every k.                           *)
LimiterRecords(u, c) ==
  IF routes = "map"
  THEN { [attempts |-> rateLimitMap[<<u, c>>].attempts,
          nextAllowedAt |-> rateLimitMap[<<u, c>>].nextAllowedAt] :
         x \in { y \in {1} : rateLimitMap[<<u, c>>].present } }
  ELSE { [attempts |-> rateLimits[i].attempts,
          nextAllowedAt |-> rateLimits[i].nextAllowedAt] :
         i \in RowsOf(rateLimits, u, c) }

C24_LimitersAgree ==
  \A p \in Procs :
    (pc[p] = "done" /\ loc[p].op = "submit" /\ loc[p].result = "wrong") =>
      LET u == loc[p].userId
          c == loc[p].challengeId
          k == Cardinality(WrongRows(u, c))
      IN /\ delayFor(k) = mapDelay(k)
         /\ LimiterRecords(u, c) =
              { [attempts |-> k, nextAllowedAt |-> loc[p].now + delayFor(k)] }

C24_Witness ==
  \E p \in Procs :
    /\ routes = "map"
    /\ pc[p] = "done" /\ loc[p].op = "submit" /\ loc[p].result = "wrong"
    /\ Cardinality(WrongRows(loc[p].userId, loc[p].challengeId)) = 4
    /\ rateLimitMap[<<loc[p].userId, loc[p].challengeId>>].nextAllowedAt = loc[p].now + Delay3

(* C25: every FlagSubmission row's isCorrect is true exactly when its      *)
(* submittedFlag, trimmed, equals the challenge's flag, trimmed; in        *)
(* particular the row logged for a submission that produced a Solve has    *)
(* isCorrect = true, in both storage implementations.                      *)
C25_IsCorrectLogged ==
  \A i \in DOMAIN flagSubmissions :
    /\ flagSubmissions[i].challengeId \in Challenges
    /\ flagSubmissions[i].isCorrect <=>
         (Trim(flagSubmissions[i].submittedFlag) =
            Trim(challenges[flagSubmissions[i].challengeId].flag))

(* C25, DatabaseStorage only: the row stores the handler's comparison *)
C25_IsCorrectLoggedDatabaseStorage ==
  store = "db" => C25_IsCorrectLogged

(* C26: the isFirstBlood value returned to the submitter of a correct     *)
(* flag equals the isFirstBlood value stored in the Solve created by that  *)
(* same request, under any interleaving with other users' correct          *)
(* submissions on the same challenge.                                      *)
C26_FirstBloodReturned ==
  \A p \in Procs :
    (routes = "map" /\ pc[p] = "done" /\ loc[p].op = "submit"
       /\ loc[p].result = "correct") =>
      \E i \in RowsOf(solves, loc[p].userId, loc[p].challengeId) :
        solves[i].isFirstBlood = loc[p].firstBloodSeen

(* C26, MemStorage only: the two checkFirstBlood calls run in one turn *)
C26_FirstBloodReturnedMemStorage ==
  store = "mem" => C26_FirstBloodReturned

(* C27: under any sequence or interleaving of correct submissions by one  *)
(* user, the 'first_solve' achievement is awarded to that user exactly     *)
(* once, when the user's number of solves becomes 1 (and likewise the      *)
(* 10-solve and 50-solve achievements at 10 and 50): never twice, and once *)
(* the user's requests have completed, once if the user has a Solve and    *)
(* not at all otherwise.                                                   *)
C27_FirstSolveOnce ==
  \A u \in Users :
    /\ achievements[u]["first_solve"] <= 1
    /\ achievements[u]["solver"] = 0 /\ achievements[u]["expert"] = 0
    /\ (\A p \in Procs : pc[p] \in {"idle", "done"} \/ loc[p].userId # u) =>
         achievements[u]["first_solve"] = IF UserRows(solves, u) # {} THEN 1 ELSE 0

(* C27, DatabaseStorage only *)
C27_FirstSolveOnceDatabaseStorage ==
  store = "db" => C27_FirstSolveOnce

(* C28: in every quiescent state (no submission in flight) and for every  *)
(* challenge, totalSolves equals the number of Solve rows of the           *)
(* challenge, after any sequence or interleaving of submissions.           *)
C28_TotalSolvesCountsRows ==
  Quiescent =>
    \A c \in Challenges :
      challenges[c].totalSolves = Cardinality(ChallengeRows(solves, c))

(* C28, DatabaseStorage only: one atomic increment per inserted row *)
C28_TotalSolvesCountsRowsDatabaseStorage ==
  store = "db" => C28_TotalSolvesCountsRows

(* C29: if a persistence operation fails in the middle of processing a    *)
(* correct submission, the state left behind is all-or-nothing: either no  *)
(* Solve row exists for the pair, or the Solve row exists together with    *)
(* the user's score increase and the challenge's totalSolves increment; a  *)
(* Solve row never exists without its score having been credited.          *)
PointsOfRows(u) ==
  SumOver([i \in DOMAIN solves |-> solves[i].pointsAwarded], UserRows(solves, u))

(* a statement of createSolve fails and the request answers the error *)
SolveFails(p) ==
  /\ pc[p] \in {"insertSolve", "getUser", "updateUser", "incTotalSolves",
                "getUserSolves", "insertAchievements"}
  /\ pc'[p] = "done"
  /\ loc'[p].result = "error"

AllOrNothing(u, c) ==
  \/ RowsOf(solves, u, c) = {}
  \/ /\ users[u].score = PointsOfRows(u)
     /\ challenges[c].totalSolves = Cardinality(ChallengeRows(solves, c))

C29_AllOrNothing ==
  [][ \A p \in Procs :
        SolveFails(p) => AllOrNothing(loc[p].userId, loc[p].challengeId)' ]_vars

(* C30: rate limiting never locks a pair out for good: in every reachable *)
(* state nextAllowedAt is at most 15 seconds after the time of the last    *)
(* admitted wrong submission, so once 15 seconds have passed since the     *)
(* last wrong submission a new submission for the pair is always admitted  *)
(* by the rate limiter, whatever the attempts count.                       *)
LastWrongBound ==
  /\ \A i \in DOMAIN rateLimits :
       rateLimits[i].nextAllowedAt # NULL =>
         rateLimits[i].nextAllowedAt <= rateLimits[i].lastAttempt + Delay3
  /\ \A pr \in Pairs :
       rateLimitMap[pr].present => rateLimitMap[pr].nextAllowedAt <= now + Delay3
  /\ \A p \in Procs :
       (pc[p] = "done" /\ loc[p].op = "submit" /\ loc[p].result = "wrong") =>
         \A r \in LimiterRecords(loc[p].userId, loc[p].challengeId) :
           r.nextAllowedAt <= loc[p].now + Delay3

(* the limiter of the persisted table answers, 15 seconds or more after    *)
(* the pair's record was last written                                      *)
AdmittedByTable(p) ==
  (/\ pc[p] = "canSubmit" /\ pc'[p] # "canSubmit"
   /\ \A i \in RowsOf(rateLimits, loc[p].userId, loc[p].challengeId) :
        now >= rateLimits[i].lastAttempt + Delay3)
    => pc'[p] = "getSolve"

(* a request arrives at the routes of the map 15 seconds or more after the *)
(* wrong submission that the same connection made last on the pair         *)
AdmittedByMap(p) ==
  (/\ routes = "map"
   /\ pc[p] = "done" /\ loc[p].op = "submit" /\ loc[p].result = "wrong"
   /\ pc'[p] # "done" \/ loc'[p] # loc[p]
   /\ loc'[p].userId = loc[p].userId /\ loc'[p].challengeId = loc[p].challengeId
   /\ now >= loc[p].now + Delay3)
    => loc'[p].result # "rate_limited"

C30_NoLockout ==
  /\ []LastWrongBound
  /\ [][ \A p \in Procs : AdmittedByTable(p) /\ AdmittedByMap(p) ]_vars

C30_Witness ==
  \E p \in Procs :
    /\ pc[p] = "done" /\ loc[p].op = "submit" /\ loc[p].result = "correct"
    /\ \E r \in LimiterRecords(loc[p].userId, loc[p].challengeId) :
         /\ r.attempts = 3
         /\ r.nextAllowedAt = Delay1 + Delay2 + Delay3
         /\ now >= r.nextAllowedAt

====
